---- MODULE Spec2Model ----
(***************************************************************************)
(* Color Panes plugin for Gedit: the trunk version (2.0.0,                 *)
(* src/trunk/colorpanes/color_panes.py) and version 1.6.0                  *)
(* (src/colorpanes/color_panes.py).                                        *)
(*                                                                         *)
(* GTK runs every callback to completion on one thread, so each Gedit call *)
(* (activate, deactivate, update_ui) and each signal delivery is one       *)
(* action.  The widget tree, the widgets' colour overrides and the         *)
(* terminal's colours and font belong to the host; the plugin reads and    *)
(* writes them through the calls modelled below.                           *)
(***************************************************************************)
EXTENDS Integers, Sequences, FiniteSets, TLC

(***************************************************************************)
(* Bounds of the model.                                                    *)
(***************************************************************************)
\* Gedit windows 1..NumWindows.
NumWindows == 2
Windows == 1..NumWindows

(***************************************************************************)
(* The widget universe.  A widget is <<tag, window>>.                      *)
(*   window  gtk.Window (GeditWindow)                                      *)
(*   docs    GeditNotebook holding the document tabs                       *)
(*   side    gtk.Notebook of the side pane                                 *)
(*   pageA   a container page of the side pane (gtk.VBox)                  *)
(*   viewA   a gtk.TreeView inside pageA                                   *)
(*   viewX   a gtk.Entry that can be added to pageA later (window 1)       *)
(*   pageT   the page of the Embedded Terminal (gtk.HBox, window 1)        *)
(*   term    the vte.Terminal inside pageT (window 1)                      *)
(***************************************************************************)
Win(w) == <<"window", w>>
Docs(w) == <<"docs", w>>
Side(w) == <<"side", w>>
PageA(w) == <<"pageA", w>>
ViewA(w) == <<"viewA", w>>
ViewX == <<"viewX", 1>>
PageT == <<"pageT", 1>>
Term == <<"term", 1>>

Widgets ==
    UNION {{Win(w), Docs(w), Side(w), PageA(w), ViewA(w)} : w \in Windows}
    \cup {ViewX, PageT, Term}

Terminals == {Term}
\* The pages that come and go in the side pane of window 1 (the panes of
\* the other windows keep their page): a pane plugin's page, or the
\* Embedded Terminal's.
PanePages == {PageA(1)}
TerminalPages == {PageT}

Tag(x) == x[1]
WindowOf(x) == x[2]

\* hasattr(widget, 'get_children') / isinstance(widget, gtk.Container)
IsContainer(x) == Tag(x) \in {"window", "docs", "side", "pageA", "pageT", "viewA"}
\* isinstance(widget, gtk.Notebook)
IsNotebook(x) == Tag(x) \in {"docs", "side"}
\* 'GeditNotebook' in type(widget).__name__
IsGeditNotebook(x) == Tag(x) = "docs"
\* hasattr(widget, 'modify_text') and hasattr(widget, 'modify_base')
HasModify(x) == Tag(x) \in {"side", "viewA", "viewX", "term"}
\* hasattr(widget, 'set_color_foreground') and hasattr(widget, 'set_color_background')
HasTermSetters(x) == Tag(x) = "term"
\* 'View' in type(widget).__name__ and not isinstance(widget, gtk.CellView)
IsView(x) == Tag(x) = "viewA"
\* isinstance(widget, gtk.Entry)
IsEntry(x) == Tag(x) = "viewX"
\* isinstance(widget, vte.Terminal)
IsVte(x) == Tag(x) = "term"

(***************************************************************************)
(* Values.  "None" is Python's None for colours and fonts; 0 is None for   *)
(* handler and connection ids (both are false in a Python condition);      *)
(* <<>> is None and <<S>> the set S for _notebooks; <<>> is None where a   *)
(* widget is expected.                                                     *)
(***************************************************************************)
None == "None"
NoWidget == << >>
NoNotebooks == << >>
Some(S) == <<S>>

\* The <<text, base>> colours of the editor schemes the user can choose:
\* one defines neither, one both, one only the text colour.
Schemes == {<<None, None>>, <<"ink", "paper">>, <<"ink", None>>}
\* gtk.gdk.color_parse: the colour a description names.
color_parse(desc) == IF desc = "#2e3436" THEN "ink" ELSE "paper"
\* The description that names a colour.
Describe(color) == IF color = "ink" THEN "#2e3436" ELSE "#eeeeec"
\* What the plugin can read of a scheme: whether the scheme manager finds
\* the scheme (scheme), whether the scheme has a 'text' style (text), and
\* the style's properties foreground-set, foreground, background-set and
\* background; a description may be the empty string.
AllStyles ==
    [scheme : BOOLEAN, text : BOOLEAN,
     fg_set : BOOLEAN, fg : {"", Describe("ink")},
     bg_set : BOOLEAN, bg : {"", Describe("paper")}]
\* The scheme whose 'text' style sets the colours s and no other property.
StyleOf(s) ==
    [scheme |-> TRUE, text |-> TRUE,
     fg_set |-> s[1] # None, fg |-> IF s[1] # None THEN Describe(s[1]) ELSE "",
     bg_set |-> s[2] # None, bg |-> IF s[2] # None THEN Describe(s[2]) ELSE ""]
\* The <<text, base>> colours the scheme d defines: a colour is defined
\* when the scheme and its 'text' style exist, the property is set and the
\* description is not empty.
SchemeDefines(d) ==
    <<IF d.scheme /\ d.text /\ d.fg_set /\ d.fg # "" THEN color_parse(d.fg) ELSE None,
      IF d.scheme /\ d.text /\ d.bg_set /\ d.bg # "" THEN color_parse(d.bg) ELSE None>>
\* gtk style of the desktop theme, STATE_NORMAL.
ThemeText == "theme-text"
ThemeBase == "theme-base"
\* /apps/gnome-terminal/profiles/Default/{foreground,background}_color
ProfileFg == "profile-fg"
ProfileBg == "profile-bg"
\* The editor font of Gedit's preferences.
GeditFont == "gedit-font"
\* The gedit.Document objects (version 1.6.0).
Documents == {"doc1", "doc2"}

\* No call of activate or deactivate is in progress.
Idle == <<"idle", 0>>

VARIABLES
    \* host state
    children,        \* widget -> sequence of its children (get_children)
    wText, wBase,    \* widget -> colour override of STATE_NORMAL (modify_text/base)
    tFg, tBg, tFont, \* terminal -> foreground, background, font
    style,           \* the editor scheme and the properties of its 'text' style
    schemeText, schemeBase,  \* the editor scheme's 'text' style colours
    gconfNotify,     \* connection ids registered with GConf (notify_add)
    sigStyle,        \* window -> handler ids connected to 'style-set'
    sigPage,         \* notebook -> handler ids connected to 'page-added'
    \* trunk: ColorPanesPlugin
    instances,       \* keys of _instances
    gconf_client,    \* TRUE when gconf_client is set
    gconf_cnxn,      \* _gconf_cnxn
    terminal_colors, \* terminal -> <<fg, bg>>
    terminal_font,   \* terminal -> font string or None
    \* trunk: ColorPanesWindowHelper of each window
    h_notebooks,     \* _notebooks
    h_handlers,      \* _handlers_per_notebook
    h_style,         \* _window_style_handler
    pc,              \* the statement a call of activate or deactivate in progress is at
    \* the searches on their own: a widget tree, and what the searches found in it
    tree,            \* widget -> sequence of its children (get_children)
    found,           \* the root the searches were last called on, and what they returned
    \* history
    \* version 1.6.0: host, plugin and the helper of each window
    activeDoc,       \* window -> window.get_active_document()
    sigDoc,          \* document -> <<handler id, window>> connected to notify::style-scheme
    instances16,     \* keys of _instances
    signal_doc,      \* _signal_doc
    doc_handler,     \* _doc_signal_handler
    handlers16,      \* _handlers_per_notebook
    notebooks16,     \* _notebooks (a list)
    terminal16,      \* _terminal
    \* history (kept while the window, or the plugin, is active)
    preText, preBase, \* widget -> the overrides it had when its window was activated
    preTerm,         \* terminal -> <<fg, bg, font>> it had when its window was activated
    firstSeen,       \* terminal -> <<fg, bg, font, readable>> when an update first stored it
    touched,         \* window -> widgets an update recoloured since activation
    last,            \* the signal the last step delivered, <<"call", 0>> for a call of Gedit
    ran,             \* window -> runs of update_pane_colors by the handlers of the last step
    uiUpdates,       \* 1.6.0: window -> calls of _update_pane_colors by update_ui, helper's life
    sawDoc,          \* 1.6.0: window -> an update_ui of the helper found an active document
    calledWith       \* 1.6.0: the doc arguments of _update_pane_colors in the last step

hostVars == <<children, wText, wBase, tFg, tBg, tFont, style, schemeText, schemeBase,
              gconfNotify, sigStyle, sigPage>>
pluginVars == <<instances, gconf_client, gconf_cnxn, terminal_colors, terminal_font>>
helperVars == <<h_notebooks, h_handlers, h_style>>
historyVars == <<preText, preBase, preTerm, firstSeen, touched, last, ran>>
treeVars == <<tree, found>>
trunkVars == <<gconfNotify, sigStyle, pluginVars, helperVars, pc, treeVars,
               preText, preBase, preTerm, firstSeen, touched>>
vars16 == <<activeDoc, sigDoc, instances16, signal_doc, doc_handler, handlers16,
            notebooks16, terminal16, uiUpdates, sawDoc, calledWith>>
vars == <<hostVars, pluginVars, helperVars, pc, treeVars, historyVars, vars16>>

(***************************************************************************)
(* Collect widgets (trunk).  ch is the widget tree the search walks.       *)
(***************************************************************************)
Range(s) == {s[i] : i \in DOMAIN s}

\* As _get_notebooks without the search below a GeditNotebook.
RECURSIVE GetNotebooksStoppingAtGedit(_, _)
GetNotebooksStoppingAtGedit(ch, widget) ==
    IF IsContainer(widget) /\ ~IsGeditNotebook(widget)
    THEN (IF IsNotebook(widget) THEN {widget} ELSE {})
         \cup UNION {GetNotebooksStoppingAtGedit(ch, child) : child \in Range(ch[widget])}
    ELSE {}

RECURSIVE _get_notebooks(_, _)
_get_notebooks(ch, widget) ==
    IF IsContainer(widget)
    THEN (IF IsNotebook(widget) /\ ~IsGeditNotebook(widget) THEN {widget} ELSE {})
         \cup UNION {_get_notebooks(ch, child) : child \in Range(ch[widget])}
    ELSE {}

\* As _get_widgets_to_color without the search below a widget it takes.
RECURSIVE GetWidgetsStoppingAtMatch(_, _)
GetWidgetsStoppingAtMatch(ch, widget) ==
    IF HasModify(widget)
    THEN {widget}
    ELSE IF IsContainer(widget)
         THEN UNION {GetWidgetsStoppingAtMatch(ch, child) : child \in Range(ch[widget])}
         ELSE {}

RECURSIVE _get_widgets_to_color(_, _)
_get_widgets_to_color(ch, widget) ==
    (IF HasModify(widget) THEN {widget} ELSE {})
    \cup (IF IsContainer(widget)
          THEN UNION {_get_widgets_to_color(ch, child) : child \in Range(ch[widget])}
          ELSE {})

RECURSIVE _get_terminals(_, _)
_get_terminals(ch, widget) ==
    (IF HasTermSetters(widget) THEN {widget} ELSE {})
    \cup (IF IsContainer(widget)
          THEN UNION {_get_terminals(ch, child) : child \in Range(ch[widget])}
          ELSE {})

\* The two loops over self._notebooks that open update_pane_colors and
\* _restore_pane_colors.
WidgetsToColor(ch, nbs) == UNION {_get_widgets_to_color(ch, nb) : nb \in nbs}
TerminalsIn(ch, nbs) == UNION {_get_terminals(ch, nb) : nb \in nbs}

(***************************************************************************)
(* Signals: connect returns a handler id > 0 that is not in use.           *)
(***************************************************************************)
FreshId(S) == CHOOSE i \in 1..(Cardinality(S) + 1) : i \notin S

(***************************************************************************)
(* Trunk: recording the original terminal colours and font.                *)
(***************************************************************************)
\* _get_term_colors_from_term: the colours of the terminal's text when it
\* has text with attributes (readable), else None, None.
_get_term_colors_from_term(t, readable) ==
    IF readable THEN <<tFg[t], tBg[t]>> ELSE <<None, None>>

_get_term_colors_from_gconf == <<ProfileFg, ProfileBg>>

\* The pair _store_terminal_colors puts in plugin.terminal_colors[t].
_store_terminal_colors(t, readable) ==
    LET c == _get_term_colors_from_term(t, readable)
    IN  IF c[1] = None \/ c[2] = None \/ c[1] = c[2]
        THEN _get_term_colors_from_gconf
        ELSE c

\* The value _store_terminal_font puts in plugin.terminal_font[t].
_store_terminal_font(t) == tFont[t]

\* As StoredColorsAfter without the test "terminal not in terminal_colors":
\* every update stores the colours again.
StoredColorsEveryUpdate(T, readable) ==
    [t \in DOMAIN terminal_colors \cup T |->
        IF t \in T
        THEN _store_terminal_colors(t, readable)
        ELSE terminal_colors[t]]

\* plugin.terminal_colors after an update that met the terminals T.
StoredColorsAfter(T, readable) ==
    [t \in DOMAIN terminal_colors \cup T |->
        IF t \in DOMAIN terminal_colors
        THEN terminal_colors[t]
        ELSE _store_terminal_colors(t, readable)]

\* plugin.terminal_font after an update that met the terminals T.
StoredFontAfter(T) ==
    [t \in DOMAIN terminal_font \cup T |->
        IF t \in DOMAIN terminal_font
        THEN terminal_font[t]
        ELSE _store_terminal_font(t)]

(***************************************************************************)
(* Trunk: update_pane_colors of the helpers whose notebooks are nbs, on    *)
(* the tree ch, with the scheme colours (text_color, base_color) that      *)
(* _get_gedit_scheme_colors returns.  The two sets are collected once,     *)
(* before any widget is written.                                           *)
(***************************************************************************)
\* As _get_style_colors, but a colour only together with the other one.
StyleColorsBothOrNone(d) ==
    IF d.fg_set /\ d.fg # "" /\ d.bg_set /\ d.bg # ""
    THEN <<color_parse(d.fg), color_parse(d.bg)>>
    ELSE <<None, None>>

\* _get_style_colors of the style the scheme d has
_get_style_colors(d) ==
    LET text_color == IF d.fg_set
                      THEN (IF d.fg # "" THEN color_parse(d.fg) ELSE None)
                      ELSE None
        base_color == IF d.bg_set
                      THEN (IF d.bg # "" THEN color_parse(d.bg) ELSE None)
                      ELSE None
    IN  <<text_color, base_color>>

\* _get_gedit_scheme_colors when Gedit's scheme is d
_get_gedit_scheme_colors(d) ==
    IF d.scheme
    THEN (IF d.text THEN _get_style_colors(d) ELSE <<None, None>>)
    ELSE <<None, None>>

_get_gedit_font == GeditFont

update_pane_colors(ch, nbs, text_color, base_color, readable) ==
    \E widgets_to_color \in {WidgetsToColor(ch, nbs)}, terminals \in {TerminalsIn(ch, nbs)} :
    LET term_fg == IF text_color # None THEN text_color ELSE ThemeText
        term_bg == IF base_color # None THEN base_color ELSE ThemeBase
    IN  /\ wText' = [x \in Widgets |->
                        IF x \in widgets_to_color THEN text_color ELSE wText[x]]
        /\ wBase' = [x \in Widgets |->
                        IF x \in widgets_to_color THEN base_color ELSE wBase[x]]
        /\ terminal_colors' = StoredColorsAfter(terminals, readable)
        /\ tFg' = [t \in Terminals |-> IF t \in terminals THEN term_fg ELSE tFg[t]]
        /\ tBg' = [t \in Terminals |-> IF t \in terminals THEN term_bg ELSE tBg[t]]
        /\ terminal_font' = StoredFontAfter(terminals)
        /\ tFont' = [t \in Terminals |->
                        IF t \in terminals THEN _get_gedit_font ELSE tFont[t]]

(***************************************************************************)
(* Trunk: _restore_pane_colors of the helper whose notebooks are nbs.      *)
(***************************************************************************)
\* As _restore_pane_colors without widget.modify_base(state, None).
RestoreTextOnly(ch, nbs) ==
    \E widgets_to_color \in {WidgetsToColor(ch, nbs)} :
        /\ wText' = [x \in Widgets |->
                        IF x \in widgets_to_color THEN None ELSE wText[x]]
        /\ UNCHANGED <<wBase, tFg, tBg, tFont>>

_restore_pane_colors(ch, nbs) ==
    \E widgets_to_color \in {WidgetsToColor(ch, nbs)}, terminals \in {TerminalsIn(ch, nbs)} :
    LET hasColors(t) == t \in terminals /\ t \in DOMAIN terminal_colors
        hasFont(t) == t \in terminals /\ t \in DOMAIN terminal_font
    IN  /\ wText' = [x \in Widgets |->
                        IF x \in widgets_to_color THEN None ELSE wText[x]]
        /\ wBase' = [x \in Widgets |->
                        IF x \in widgets_to_color THEN None ELSE wBase[x]]
        /\ tFg' = [t \in Terminals |->
                        IF hasColors(t) /\ terminal_colors[t][1] # None
                        THEN terminal_colors[t][1] ELSE tFg[t]]
        /\ tBg' = [t \in Terminals |->
                        IF hasColors(t) /\ terminal_colors[t][2] # None
                        THEN terminal_colors[t][2] ELSE tBg[t]]
        /\ tFont' = [t \in Terminals |->
                        IF hasFont(t) /\ terminal_font[t] # None
                        THEN terminal_font[t] ELSE tFont[t]]

(***************************************************************************)
(* History: what the steps leave for the properties to read.               *)
(***************************************************************************)
NoRuns == [w \in Windows |-> 0]
NoTerm == <<None, None, None>>
Step(op, w) == <<op, w>>

\* The terminals an update stores for the first time, with what they were.
FirstSeenAfter(T, readable) ==
    [t \in DOMAIN firstSeen \cup (T \ DOMAIN terminal_colors) |->
        IF t \in DOMAIN firstSeen /\ t \in DOMAIN terminal_colors
        THEN firstSeen[t]
        ELSE <<tFg[t], tBg[t], tFont[t], readable>>]

\* An update of the helpers of the windows W, whose notebooks are nbs, n
\* times each, on the tree ch.
Recorded(ch, W, nbs, n, readable) ==
    /\ ran' = [w \in Windows |-> IF w \in W THEN n ELSE 0]
    /\ firstSeen' =
          IF n > 0
          THEN FirstSeenAfter(TerminalsIn(ch, nbs), readable)
          ELSE firstSeen

(***************************************************************************)
(* Trunk: ColorPanesPlugin.activate(window), with                          *)
(* ColorPanesWindowHelper.__init__ and .activate.                          *)
(***************************************************************************)
\* _connect_gconf
_connect_gconf ==
    IF ~gconf_client
    THEN /\ gconf_client' = TRUE
         /\ gconf_cnxn' = FreshId(gconfNotify)
         /\ gconfNotify' = gconfNotify \cup {FreshId(gconfNotify)}
    ELSE UNCHANGED <<gconf_client, gconf_cnxn, gconfNotify>>

\* _connect_window
_connect_window(w) ==
    /\ h_style' = [h_style EXCEPT ![w] = FreshId(sigStyle[w])]
    /\ sigStyle' = [sigStyle EXCEPT ![w] = @ \cup {FreshId(sigStyle[w])}]

\* _connect_notebooks, for the notebooks nbs just found
_connect_notebooks(w, nbs) ==
    /\ h_handlers' = [h_handlers EXCEPT ![w] = [nb \in nbs |-> FreshId(sigPage[nb])]]
    /\ sigPage' = [nb \in DOMAIN sigPage |->
                      IF nb \in nbs THEN sigPage[nb] \cup {FreshId(sigPage[nb])}
                      ELSE sigPage[nb]]

Activate(w, readable) ==
    /\ w \notin instances
    /\ IF instances = {}
       THEN _connect_gconf
       ELSE UNCHANGED <<gconf_client, gconf_cnxn, gconfNotify>>
    /\ instances' = instances \cup {w}
    /\ _connect_window(w)
    /\ LET nbs == _get_notebooks(children, Win(w))
           colors == _get_gedit_scheme_colors(style)
       IN  /\ h_notebooks' = [h_notebooks EXCEPT ![w] = Some(nbs)]
           /\ _connect_notebooks(w, nbs)
           /\ update_pane_colors(children, nbs, colors[1], colors[2], readable)
           /\ touched' = [touched EXCEPT ![w] =
                              WidgetsToColor(children, nbs) \cup TerminalsIn(children, nbs)]
           /\ firstSeen' = FirstSeenAfter(TerminalsIn(children, nbs), readable)
    /\ preText' = [x \in Widgets |-> IF WindowOf(x) = w THEN wText[x] ELSE preText[x]]
    /\ preBase' = [x \in Widgets |-> IF WindowOf(x) = w THEN wBase[x] ELSE preBase[x]]
    /\ preTerm' = [t \in Terminals |->
                      IF WindowOf(t) = w THEN <<tFg[t], tBg[t], tFont[t]>> ELSE preTerm[t]]
    /\ last' = Step("call", 0)
    /\ ran' = NoRuns
    /\ UNCHANGED <<children, style, schemeText, schemeBase, vars16, pc, treeVars>>

(***************************************************************************)
(* Trunk: ColorPanesPlugin.deactivate(window), with                        *)
(* ColorPanesWindowHelper.deactivate.                                      *)
(***************************************************************************)
\* As _disconnect_notebooks of version 1.6.0: the dictionary is not emptied.
DisconnectKeepingDict(w) ==
    /\ sigPage' = [nb \in DOMAIN sigPage |->
                      IF nb \in DOMAIN h_handlers[w]
                      THEN sigPage[nb] \ {h_handlers[w][nb]}
                      ELSE sigPage[nb]]
    /\ UNCHANGED h_handlers

\* _disconnect_notebooks
_disconnect_notebooks(w) ==
    /\ sigPage' = [nb \in DOMAIN sigPage |->
                      IF nb \in DOMAIN h_handlers[w]
                      THEN sigPage[nb] \ {h_handlers[w][nb]}
                      ELSE sigPage[nb]]
    /\ h_handlers' = [h_handlers EXCEPT ![w] = << >>]

\* As _disconnect_window without self._window.disconnect(...).
DisconnectWindowSkipped(w) ==
    UNCHANGED <<sigStyle, h_style>>

\* _disconnect_window
_disconnect_window(w) ==
    /\ sigStyle' = [sigStyle EXCEPT ![w] = IF h_style[w] # 0 THEN @ \ {h_style[w]} ELSE @]
    /\ UNCHANGED h_style

\* As _disconnect_gconf without gconf_client.notify_remove(...).
DisconnectGconfFieldsOnly ==
    /\ gconf_cnxn' = 0
    /\ gconf_client' = FALSE
    /\ UNCHANGED gconfNotify

\* _disconnect_gconf
_disconnect_gconf ==
    /\ gconfNotify' = IF gconf_client /\ gconf_cnxn # 0
                      THEN gconfNotify \ {gconf_cnxn} ELSE gconfNotify
    /\ gconf_cnxn' = 0
    /\ gconf_client' = FALSE

Deactivate(w) ==
    /\ w \in instances
    /\ _restore_pane_colors(children, h_notebooks[w][1])
    /\ _disconnect_notebooks(w)
    /\ h_notebooks' = [h_notebooks EXCEPT ![w] = NoNotebooks]
    /\ _disconnect_window(w)
    /\ instances' = instances \ {w}
    /\ IF instances \ {w} = {}
       THEN /\ _disconnect_gconf
            /\ terminal_colors' = << >>
            /\ terminal_font' = << >>
            /\ firstSeen' = << >>
       ELSE UNCHANGED <<gconfNotify, gconf_cnxn, gconf_client,
                        terminal_colors, terminal_font, firstSeen>>
    /\ preText' = [x \in Widgets |-> IF WindowOf(x) = w THEN None ELSE preText[x]]
    /\ preBase' = [x \in Widgets |-> IF WindowOf(x) = w THEN None ELSE preBase[x]]
    /\ preTerm' = [t \in Terminals |-> IF WindowOf(t) = w THEN NoTerm ELSE preTerm[t]]
    /\ touched' = [touched EXCEPT ![w] = {}]
    /\ last' = Step("call", 0)
    /\ ran' = NoRuns
    /\ UNCHANGED <<children, style, schemeText, schemeBase, vars16, pc, treeVars>>

(***************************************************************************)
(* Trunk: the same two calls, one statement at a time.  pc names the       *)
(* statement of the call in progress that runs next, and the window of the *)
(* call.                                                                   *)
(***************************************************************************)
At(stmt, w) == pc = <<stmt, w>>

\* ColorPanesPlugin.activate: if not self._instances: self._connect_gconf()
ActivateBegin(w) ==
    /\ pc = Idle
    /\ w \notin instances
    /\ IF instances = {}
       THEN _connect_gconf
       ELSE UNCHANGED <<gconf_client, gconf_cnxn, gconfNotify>>
    /\ pc' = <<"new_helper", w>>
    /\ last' = Step("call", 0)
    /\ ran' = NoRuns
    /\ UNCHANGED <<children, wText, wBase, tFg, tBg, tFont, style, schemeText, schemeBase,
                   sigStyle, sigPage, instances, terminal_colors, terminal_font,
                   helperVars, preText, preBase, preTerm, firstSeen, touched, vars16, treeVars>>

\* self._instances[window] = ColorPanesWindowHelper(self, window)
ActivateNewHelper(w) ==
    /\ At("new_helper", w)
    /\ instances' = instances \cup {w}
    /\ h_handlers' = [h_handlers EXCEPT ![w] = << >>]
    /\ h_notebooks' = [h_notebooks EXCEPT ![w] = NoNotebooks]
    /\ h_style' = [h_style EXCEPT ![w] = 0]
    /\ pc' = <<"_connect_window", w>>
    /\ UNCHANGED <<hostVars, gconf_client, gconf_cnxn, terminal_colors, terminal_font,
                   historyVars, vars16, treeVars>>

\* helper.activate: self._connect_window()
ActivateConnectWindow(w) ==
    /\ At("_connect_window", w)
    /\ _connect_window(w)
    /\ pc' = <<"_get_notebooks", w>>
    /\ UNCHANGED <<children, wText, wBase, tFg, tBg, tFont, style, schemeText, schemeBase,
                   gconfNotify, sigPage, pluginVars, h_notebooks, h_handlers,
                   historyVars, vars16, treeVars>>

\* self._notebooks = self._get_notebooks(self._window)
ActivateGetNotebooks(w) ==
    /\ At("_get_notebooks", w)
    /\ h_notebooks' = [h_notebooks EXCEPT ![w] = Some(_get_notebooks(children, Win(w)))]
    /\ pc' = <<"_connect_notebooks", w>>
    /\ UNCHANGED <<hostVars, pluginVars, h_handlers, h_style, historyVars, vars16, treeVars>>

\* self._connect_notebooks()
ActivateConnectNotebooks(w) ==
    /\ At("_connect_notebooks", w)
    /\ _connect_notebooks(w, h_notebooks[w][1])
    /\ pc' = <<"update_pane_colors", w>>
    /\ UNCHANGED <<children, wText, wBase, tFg, tBg, tFont, style, schemeText, schemeBase,
                   gconfNotify, sigStyle, pluginVars, h_notebooks, h_style,
                   historyVars, vars16, treeVars>>

\* self.update_pane_colors(), the last statement of helper.activate
ActivateUpdate(w, readable) ==
    /\ At("update_pane_colors", w)
    /\ LET nbs == h_notebooks[w][1]
           colors == _get_gedit_scheme_colors(style)
       IN  /\ update_pane_colors(children, nbs, colors[1], colors[2], readable)
           /\ touched' = [touched EXCEPT ![w] =
                              WidgetsToColor(children, nbs) \cup TerminalsIn(children, nbs)]
           /\ firstSeen' = FirstSeenAfter(TerminalsIn(children, nbs), readable)
    /\ preText' = [x \in Widgets |-> IF WindowOf(x) = w THEN wText[x] ELSE preText[x]]
    /\ preBase' = [x \in Widgets |-> IF WindowOf(x) = w THEN wBase[x] ELSE preBase[x]]
    /\ preTerm' = [t \in Terminals |->
                      IF WindowOf(t) = w THEN <<tFg[t], tBg[t], tFont[t]>> ELSE preTerm[t]]
    /\ pc' = Idle
    /\ UNCHANGED <<children, style, schemeText, schemeBase, gconfNotify, sigStyle, sigPage,
                   instances, gconf_client, gconf_cnxn, helperVars, last, ran, vars16, treeVars>>

\* helper.deactivate: self._restore_pane_colors()
DeactivateRestore(w) ==
    /\ pc = Idle
    /\ w \in instances
    /\ _restore_pane_colors(children, h_notebooks[w][1])
    /\ preText' = [x \in Widgets |-> IF WindowOf(x) = w THEN None ELSE preText[x]]
    /\ preBase' = [x \in Widgets |-> IF WindowOf(x) = w THEN None ELSE preBase[x]]
    /\ preTerm' = [t \in Terminals |-> IF WindowOf(t) = w THEN NoTerm ELSE preTerm[t]]
    /\ touched' = [touched EXCEPT ![w] = {}]
    /\ last' = Step("call", 0)
    /\ ran' = NoRuns
    /\ pc' = <<"_disconnect_notebooks", w>>
    /\ UNCHANGED <<children, style, schemeText, schemeBase, gconfNotify, sigStyle, sigPage,
                   pluginVars, helperVars, firstSeen, vars16, treeVars>>

\* self._disconnect_notebooks()
DeactivateDisconnectNotebooks(w) ==
    /\ At("_disconnect_notebooks", w)
    /\ _disconnect_notebooks(w)
    /\ pc' = <<"_notebooks", w>>
    /\ UNCHANGED <<children, wText, wBase, tFg, tBg, tFont, style, schemeText, schemeBase,
                   gconfNotify, sigStyle, pluginVars, h_notebooks, h_style,
                   historyVars, vars16, treeVars>>

\* self._notebooks = None
DeactivateForgetNotebooks(w) ==
    /\ At("_notebooks", w)
    /\ h_notebooks' = [h_notebooks EXCEPT ![w] = NoNotebooks]
    /\ pc' = <<"_disconnect_window", w>>
    /\ UNCHANGED <<hostVars, pluginVars, h_handlers, h_style, historyVars, vars16, treeVars>>

\* self._disconnect_window(), the last statement of helper.deactivate
DeactivateDisconnectWindow(w) ==
    /\ At("_disconnect_window", w)
    /\ _disconnect_window(w)
    /\ pc' = <<"del", w>>
    /\ UNCHANGED <<children, wText, wBase, tFg, tBg, tFont, style, schemeText, schemeBase,
                   gconfNotify, sigPage, pluginVars, h_notebooks, h_handlers,
                   historyVars, vars16, treeVars>>

\* ColorPanesPlugin.deactivate: del self._instances[window]
DeactivateDelete(w) ==
    /\ At("del", w)
    /\ instances' = instances \ {w}
    /\ pc' = <<"_disconnect_gconf", w>>
    /\ UNCHANGED <<hostVars, gconf_client, gconf_cnxn, terminal_colors, terminal_font,
                   helperVars, historyVars, vars16, treeVars>>

\* if not self._instances: disconnect GConf and forget the terminals
DeactivateEnd(w) ==
    /\ At("_disconnect_gconf", w)
    /\ IF instances = {}
       THEN /\ _disconnect_gconf
            /\ terminal_colors' = << >>
            /\ terminal_font' = << >>
            /\ firstSeen' = << >>
       ELSE UNCHANGED <<gconfNotify, gconf_cnxn, gconf_client,
                        terminal_colors, terminal_font, firstSeen>>
    /\ pc' = Idle
    /\ UNCHANGED <<children, wText, wBase, tFg, tBg, tFont, style, schemeText, schemeBase,
                   sigStyle, sigPage, instances, helperVars,
                   preText, preBase, preTerm, touched, last, ran, vars16, treeVars>>

(***************************************************************************)
(* Trunk: the signals.                                                     *)
(***************************************************************************)
\* The notebooks of the helpers in W.
NotebooksOf(w) == h_notebooks[w][1]
AllNotebooks(W) == UNION {NotebooksOf(w) : w \in W}

\* The handlers of helper w run n times on the tree ch: on_style_set,
\* on_page_added and on_gedit_prefs_changed all call update_pane_colors.
RunUpdates(ch, W, n, d, readable) ==
    /\ IF n > 0 /\ W # {}
       THEN LET colors == _get_gedit_scheme_colors(d)
            IN  update_pane_colors(ch, AllNotebooks(W), colors[1], colors[2], readable)
       ELSE UNCHANGED <<wText, wBase, tFg, tBg, tFont, terminal_colors, terminal_font>>
    /\ touched' = [w \in Windows |->
                      IF n > 0 /\ w \in W
                      THEN touched[w] \cup WidgetsToColor(ch, NotebooksOf(w))
                                      \cup TerminalsIn(ch, NotebooksOf(w))
                      ELSE touched[w]]
    /\ Recorded(ch, W, AllNotebooks(W), n, readable)

\* As on_gedit_prefs_changed leaving the loop after the first window.
PrefsChangedFirstWindowOnly(d, readable) ==
    RunUpdates(children, {w \in instances : \A v \in instances : w <= v},
               Cardinality(gconfNotify), d, readable)

\* on_gedit_prefs_changed: GConf calls every registered notification.
on_gedit_prefs_changed(d, readable) ==
    RunUpdates(children, instances, Cardinality(gconfNotify), d, readable)

\* Gedit's editor preferences change; the scheme becomes d.
PrefsChanged(d, readable) ==
    /\ style' = d
    /\ schemeText' = SchemeDefines(d)[1]
    /\ schemeBase' = SchemeDefines(d)[2]
    /\ on_gedit_prefs_changed(d, readable)
    /\ last' = Step("prefs", 0)
    /\ UNCHANGED <<children, gconfNotify, sigStyle, sigPage, instances, gconf_client,
                   gconf_cnxn, helperVars, preText, preBase, preTerm, vars16, pc, treeVars>>

\* on_style_set: the window emits style-set (desktop theme change).
on_style_set(w, readable) ==
    RunUpdates(children, {w}, Cardinality(sigStyle[w]), style, readable)

StyleSet(w, readable) ==
    /\ on_style_set(w, readable)
    /\ last' = Step("style-set", w)
    /\ UNCHANGED <<children, style, schemeText, schemeBase, gconfNotify, sigStyle, sigPage,
                   instances, gconf_client, gconf_cnxn, helperVars,
                   preText, preBase, preTerm, vars16, pc, treeVars>>

\* As on_page_added without the call of update_pane_colors.
PageAddedIgnored(ch, w, readable) ==
    RunUpdates(ch, {w}, 0, style, readable)

\* on_page_added: a tracked notebook emits page-added, the page already in it.
on_page_added(ch, w, readable) ==
    RunUpdates(ch, {w}, Cardinality(sigPage[Side(w)]), style, readable)

\* Is the page in the side pane of its window?
Attached(ch, w, page) == page \in Range(ch[Side(w)])

PageAdded(w, page, readable) ==
    /\ ~Attached(children, w, page)
    /\ LET ch == [children EXCEPT ![Side(w)] = Append(@, page)]
       IN  /\ children' = ch
           /\ on_page_added(ch, w, readable)
    /\ last' = Step("page-added", w)
    /\ UNCHANGED <<style, schemeText, schemeBase, gconfNotify, sigStyle, sigPage,
                   instances, gconf_client, gconf_cnxn, helperVars,
                   preText, preBase, preTerm, vars16, pc, treeVars>>

\* A page leaves the side pane; the plugin connects nothing to page-removed.
Without(s, x) == SelectSeq(s, LAMBDA y : y # x)

PageRemoved(w, page) ==
    /\ Attached(children, w, page)
    /\ children' = [children EXCEPT ![Side(w)] = Without(@, page)]
    /\ last' = Step("page-removed", 0)
    /\ ran' = NoRuns
    /\ UNCHANGED <<wText, wBase, tFg, tBg, tFont, style, schemeText, schemeBase,
                   gconfNotify, sigStyle, sigPage, pluginVars, helperVars,
                   preText, preBase, preTerm, firstSeen, touched, vars16, pc, treeVars>>

\* As ViewAdded with the page's add signal connected to update_pane_colors.
ViewAddedUpdates ==
    /\ Attached(children, 1, PageA(1))
    /\ ViewX \notin Range(children[PageA(1)])
    /\ LET ch == [children EXCEPT ![PageA(1)] = Append(@, ViewX)]
       IN  /\ children' = ch
           /\ RunUpdates(ch, {1} \cap instances, 1, style, TRUE)
    /\ last' = Step("view-added", 1)
    /\ UNCHANGED <<style, schemeText, schemeBase, gconfNotify, sigStyle, sigPage,
                   instances, gconf_client, gconf_cnxn, helperVars,
                   preText, preBase, preTerm, vars16, pc, treeVars>>

\* A widget is added below the existing page pageA of window 1: the
\* notebook emits nothing.
ViewAdded ==
    /\ Attached(children, 1, PageA(1))
    /\ ViewX \notin Range(children[PageA(1)])
    /\ children' = [children EXCEPT ![PageA(1)] = Append(@, ViewX)]
    /\ last' = Step("view-added", 1)
    /\ ran' = NoRuns
    /\ UNCHANGED <<wText, wBase, tFg, tBg, tFont, style, schemeText, schemeBase,
                   gconfNotify, sigStyle, sigPage, pluginVars, helperVars,
                   preText, preBase, preTerm, firstSeen, touched, vars16, pc, treeVars>>

(***************************************************************************)
(* Trunk: the specification.                                               *)
(***************************************************************************)
\* The tree before the plugin is loaded: each window holds its side pane
\* and its document notebook; pageA with viewA is in the side pane; the
\* terminal sits in its page, which is not yet in the pane.
InitChildren ==
    [x \in Widgets |->
        CASE Tag(x) = "window" -> <<Side(WindowOf(x)), Docs(WindowOf(x))>>
          [] Tag(x) = "side" -> <<PageA(WindowOf(x))>>
          [] Tag(x) = "pageA" -> <<ViewA(WindowOf(x))>>
          [] Tag(x) = "pageT" -> <<Term>>
          [] OTHER -> << >>]

Notebooks == {x \in Widgets : IsNotebook(x)}

InitHost(fonts) ==
    /\ children = InitChildren
    /\ wText = [x \in Widgets |-> None]
    /\ wBase = [x \in Widgets |-> None]
    /\ tFg = [t \in Terminals |-> "term-fg"]
    /\ tBg = [t \in Terminals |-> "term-bg"]
    /\ tFont \in [Terminals -> fonts]
    /\ \E s \in Schemes : style = StyleOf(s) /\ schemeText = s[1] /\ schemeBase = s[2]
    /\ gconfNotify = {}
    /\ sigStyle = [w \in Windows |-> {}]
    /\ sigPage = [nb \in Notebooks |-> {}]

(***************************************************************************)
(* The searches on their own.  Widgets of a tree built freely:             *)
(*   window, docs, side, viewA, viewX, term as above (viewA, a             *)
(*   gtk.TreeView, is a container and can hold the other widgets);         *)
(*   drawing  a gtk.DrawingArea                                            *)
(***************************************************************************)
\* The edges a tree may have.
MaxEdges == 2

TreeNodes ==
    {<<"window", 1>>, <<"docs", 1>>, <<"side", 1>>, <<"side", 2>>,
     <<"viewA", 1>>, <<"viewX", 1>>, <<"term", 1>>, <<"drawing", 1>>}

\* No search has been called on the tree as it is.
NoSearch ==
    [root |-> NoWidget,
     notebooks |-> {}, widgets_to_color |-> {}, terminals |-> {},
     notebooks16 |-> << >>, widgets_to_color16 |-> {},
     calls_notebooks |-> << >>, calls_widgets |-> << >>, calls_terminals |-> << >>,
     calls_notebooks16 |-> << >>, calls_widgets16 |-> << >>]

\* No widget has been put into another.
InitTree ==
    /\ tree = [x \in TreeNodes |-> << >>]
    /\ found = NoSearch

InitTrunk ==
    /\ instances = {}
    /\ gconf_client = FALSE
    /\ gconf_cnxn = 0
    /\ terminal_colors = << >>
    /\ terminal_font = << >>
    /\ h_notebooks = [w \in Windows |-> NoNotebooks]
    /\ h_handlers = [w \in Windows |-> << >>]
    /\ h_style = [w \in Windows |-> 0]
    /\ pc = Idle

InitHistory ==
    /\ preText = [x \in Widgets |-> None]
    /\ preBase = [x \in Widgets |-> None]
    /\ preTerm = [t \in Terminals |-> NoTerm]
    /\ firstSeen = << >>
    /\ touched = [w \in Windows |-> {}]
    /\ last = Step("call", 0)
    /\ ran = NoRuns

\* Version 1.6.0 before the plugin is loaded: no document is open.
Init16 ==
    /\ activeDoc = [w \in Windows |-> None]
    /\ sigDoc = [d \in Documents |-> {}]
    /\ instances16 = {}
    /\ signal_doc = [w \in Windows |-> None]
    /\ doc_handler = [w \in Windows |-> 0]
    /\ handlers16 = [w \in Windows |-> << >>]
    /\ notebooks16 = [w \in Windows |-> << >>]
    /\ terminal16 = [w \in Windows |-> NoWidget]
    /\ uiUpdates = [w \in Windows |-> 0]
    /\ sawDoc = [w \in Windows |-> FALSE]
    /\ calledWith = {}

\* The terminal has a font.
Init == InitHost({"term-font"}) /\ InitTrunk /\ InitTree /\ InitHistory /\ Init16

\* The terminal may not report a font (get_font returns None).
InitTerm == InitHost({None, "term-font"}) /\ InitTrunk /\ InitTree /\ InitHistory /\ Init16

\* The steps of Gedit and of the desktop around the plugin; pages is the
\* set of pages that come and go in the side pane of window 1.
Steps(pages) ==
    \/ \E w \in Windows, readable \in BOOLEAN : Activate(w, readable)
    \/ \E w \in Windows : Deactivate(w)
    \/ \E s \in Schemes, readable \in BOOLEAN : PrefsChanged(StyleOf(s), readable)
    \/ \E w \in Windows, readable \in BOOLEAN : StyleSet(w, readable)
    \/ \E page \in pages, readable \in BOOLEAN : PageAdded(1, page, readable)
    \/ \E page \in pages : PageRemoved(1, page)

\* Pane plugins add and remove their page and add a widget to it.
Next == Steps(PanePages) \/ ViewAdded

Spec == Init /\ [][Next]_vars

\* The Embedded Terminal's page comes and goes.
NextTerm == Steps(TerminalPages)

SpecTerm == InitTerm /\ [][NextTerm]_vars

\* The user chooses among all the schemes Gedit can show, in the window
\* of the Embedded Terminal, whose text can be read.
NextScheme ==
    \/ Activate(1, TRUE)
    \/ Deactivate(1)
    \/ \E d \in AllStyles : PrefsChanged(d, TRUE)
    \/ PageAdded(1, PageT, TRUE)
    \/ PageRemoved(1, PageT)

SpecScheme == Init /\ [][NextScheme]_vars

\* The statements of activate and deactivate one at a time; GTK runs the
\* callbacks from its main loop, between the calls.
NextPoints ==
    \/ \E w \in Windows : ActivateBegin(w)
    \/ \E w \in Windows : ActivateNewHelper(w)
    \/ \E w \in Windows : ActivateConnectWindow(w)
    \/ \E w \in Windows : ActivateGetNotebooks(w)
    \/ \E w \in Windows : ActivateConnectNotebooks(w)
    \/ \E w \in Windows, readable \in BOOLEAN : ActivateUpdate(w, readable)
    \/ \E w \in Windows : DeactivateRestore(w)
    \/ \E w \in Windows : DeactivateDisconnectNotebooks(w)
    \/ \E w \in Windows : DeactivateForgetNotebooks(w)
    \/ \E w \in Windows : DeactivateDisconnectWindow(w)
    \/ \E w \in Windows : DeactivateDelete(w)
    \/ \E w \in Windows : DeactivateEnd(w)
    \/ pc = Idle /\ \E s \in Schemes, readable \in BOOLEAN : PrefsChanged(StyleOf(s), readable)
    \/ pc = Idle /\ \E w \in Windows, readable \in BOOLEAN : StyleSet(w, readable)
    \/ pc = Idle /\ \E readable \in BOOLEAN : PageAdded(1, PageA(1), readable)
    \/ pc = Idle /\ PageRemoved(1, PageA(1))

SpecPoints == Init /\ [][NextPoints]_vars

(***************************************************************************)
(* Version 1.6.0: collect widgets.                                         *)
(***************************************************************************)
\* isinstance(widget, gtk.DrawingArea): none of the widgets above.
IsDrawingArea(x) == Tag(x) = "drawing"

\* _get_notebooks returns a list, in the order of the walk.
RECURSIVE _get_notebooks16(_, _), NotebooksBelow16(_, _)
_get_notebooks16(ch, widget) ==
    IF IsContainer(widget)
    THEN (IF IsNotebook(widget) /\ ~IsGeditNotebook(widget) THEN <<widget>> ELSE << >>)
         \o NotebooksBelow16(ch, ch[widget])
    ELSE << >>

\* for child in children: notebooks += self._get_notebooks(child, False)
NotebooksBelow16(ch, kids) ==
    IF kids = << >>
    THEN << >>
    ELSE _get_notebooks16(ch, Head(kids)) \o NotebooksBelow16(ch, Tail(kids))

\* As _get_widgets_to_color with the search going on below the widgets it
\* takes.
RECURSIVE GetWidgets16BelowMatch(_, _)
GetWidgets16BelowMatch(ch, widget) ==
    (IF IsView(widget) \/ IsEntry(widget) \/ IsDrawingArea(widget) THEN {widget} ELSE {})
    \cup (IF IsContainer(widget)
          THEN UNION {GetWidgets16BelowMatch(ch, child) : child \in Range(ch[widget])}
          ELSE {})

\* The set _get_widgets_to_color returns: a view, an entry or a drawing area
\* is taken and the walk stops there; any other container is descended.
RECURSIVE _get_widgets_to_color16(_, _)
_get_widgets_to_color16(ch, widget) ==
    IF IsView(widget) \/ IsEntry(widget) \/ IsDrawingArea(widget)
    THEN {widget}
    ELSE IF IsContainer(widget)
         THEN UNION {_get_widgets_to_color16(ch, child) : child \in Range(ch[widget])}
         ELSE {}

\* The widgets _get_widgets_to_color assigns to self._terminal, in the
\* order of the walk.
RECURSIVE TerminalsMet16(_, _), TerminalsBelow16(_, _)
TerminalsMet16(ch, widget) ==
    IF IsView(widget) \/ IsEntry(widget) \/ IsDrawingArea(widget)
    THEN << >>
    ELSE IF IsContainer(widget)
         THEN TerminalsBelow16(ch, ch[widget])
         ELSE IF IsVte(widget) THEN <<widget>> ELSE << >>

TerminalsBelow16(ch, kids) ==
    IF kids = << >>
    THEN << >>
    ELSE TerminalsMet16(ch, Head(kids)) \o TerminalsBelow16(ch, Tail(kids))

\* The loop over self._notebooks (the list nbs) that opens
\* _update_pane_colors: the set it collects, and self._terminal after it.
WidgetsToColor16(ch, nbs) == UNION {_get_widgets_to_color16(ch, nb) : nb \in Range(nbs)}
TerminalAfter16(ch, nbs) ==
    LET met == TerminalsBelow16(ch, nbs)
    IN  IF met = << >> THEN NoWidget ELSE met[Len(met)]

(***************************************************************************)
(* Version 1.6.0: _update_pane_colors of the helpers of the windows W, the *)
(* helper of w on its list nbsOf[w] with the document docOf[w], on the     *)
(* tree ch.  The scheme is Gedit's, the same for every document.  With no  *)
(* document, doc.get_style_scheme() raises after the widgets were          *)
(* collected, and nothing is written.                                      *)
(***************************************************************************)
\* _get_style and _get_colors, when the document's scheme is d
_get_colors16(d) ==
    LET text_color == IF d.text /\ d.fg_set
                      THEN (IF d.fg # "" THEN color_parse(d.fg) ELSE None)
                      ELSE None
        base_color == IF d.text /\ d.bg_set
                      THEN (IF d.bg # "" THEN color_parse(d.bg) ELSE None)
                      ELSE None
    IN  <<text_color, base_color>>

\* _get_gtk_system_color
_get_gtk_system_color16(color_name) ==
    IF color_name = "text_color" THEN ThemeText ELSE ThemeBase

_update_pane_colors16(ch, W, nbsOf, docOf, d) ==
    \E styled \in {{w \in W : docOf[w] # None}} :
    \E widgets_to_color \in {UNION {WidgetsToColor16(ch, nbsOf[w]) : w \in styled}},
       terminals \in {{TerminalAfter16(ch, nbsOf[w]) : w \in styled} \ {NoWidget}} :
    LET colors == _get_colors16(d)
        text_color == colors[1]
        base_color == colors[2]
        term_fg == IF text_color # None THEN text_color
                   ELSE _get_gtk_system_color16("text_color")
        term_bg == IF base_color # None THEN base_color
                   ELSE _get_gtk_system_color16("base_color")
    IN  /\ terminal16' = [w \in Windows |->
                             IF w \in W THEN TerminalAfter16(ch, nbsOf[w])
                             ELSE terminal16[w]]
        /\ wText' = [x \in Widgets |->
                        IF x \in widgets_to_color THEN text_color ELSE wText[x]]
        /\ wBase' = [x \in Widgets |->
                        IF x \in widgets_to_color THEN base_color ELSE wBase[x]]
        /\ tFg' = [t \in Terminals |-> IF t \in terminals THEN term_fg ELSE tFg[t]]
        /\ tBg' = [t \in Terminals |-> IF t \in terminals THEN term_bg ELSE tBg[t]]
        /\ tFont' = [t \in Terminals |->
                        IF t \in terminals THEN _get_gedit_font ELSE tFont[t]]

\* The handlers of the helpers in W run, n[w] times for helper w, each
\* calling _update_pane_colors when call[w] holds; the documents' scheme
\* is d.
RunUpdates16(ch, W, n, call, nbsOf, docOf, d) ==
    \E U \in {{w \in W : n[w] > 0 /\ call[w]}} :
        /\ IF U # {}
           THEN _update_pane_colors16(ch, U, nbsOf, docOf, d)
           ELSE UNCHANGED <<wText, wBase, tFg, tBg, tFont, terminal16>>
        /\ ran' = [w \in Windows |-> IF w \in U THEN n[w] ELSE 0]
        /\ calledWith' = {docOf[w] : w \in U}

(***************************************************************************)
(* Version 1.6.0: the document's notify::style-scheme handler.  The helper *)
(* state is h = [signal_doc, doc_handler]; sig is sigDoc.                  *)
(***************************************************************************)
\* As _disconnect_doc with self._signal_doc = None added.
DisconnectDocForgetting(w, h, sig) ==
    IF h.signal_doc # None /\ h.doc_handler # 0
    THEN [h |-> [signal_doc |-> None, doc_handler |-> 0],
          sig |-> [sig EXCEPT ![h.signal_doc] = @ \ {<<h.doc_handler, w>>}]]
    ELSE [h |-> h, sig |-> sig]

\* As _disconnect_doc without self._signal_doc.disconnect(...).
DisconnectDocFieldOnly(w, h, sig) ==
    IF h.signal_doc # None /\ h.doc_handler # 0
    THEN [h |-> [h EXCEPT !.doc_handler = 0], sig |-> sig]
    ELSE [h |-> h, sig |-> sig]

\* _disconnect_doc
_disconnect_doc16(w, h, sig) ==
    IF h.signal_doc # None /\ h.doc_handler # 0
    THEN [h |-> [h EXCEPT !.doc_handler = 0],
          sig |-> [sig EXCEPT ![h.signal_doc] = @ \ {<<h.doc_handler, w>>}]]
    ELSE [h |-> h, sig |-> sig]

\* _update_doc_handler
_update_doc_handler16(w, doc, h, sig) ==
    LET d == _disconnect_doc16(w, h, sig)
    IN  IF doc # None
        THEN LET id == FreshId({p[1] : p \in d.sig[doc]})
             IN  [h |-> [signal_doc |-> doc, doc_handler |-> id],
                  sig |-> [d.sig EXCEPT ![doc] = @ \cup {<<id, w>>}]]
        ELSE d

\* update_ui of the helper of w, whose fields are h and whose list is nbs,
\* when window.get_active_document() returns doc; hist is the history of
\* the helper's earlier calls.
update_ui16(w, doc, h, nbs, hist) ==
    LET first == doc # None /\ h.signal_doc = None
        after == IF doc # h.signal_doc
                 THEN _update_doc_handler16(w, doc, h, sigDoc)
                 ELSE [h |-> h, sig |-> sigDoc]
    IN  /\ RunUpdates16(children, {w}, [v \in {w} |-> 1], [v \in {w} |-> first],
                        [v \in {w} |-> nbs], [v \in {w} |-> doc],
                        style)
        /\ signal_doc' = [signal_doc EXCEPT ![w] = after.h.signal_doc]
        /\ doc_handler' = [doc_handler EXCEPT ![w] = after.h.doc_handler]
        /\ sigDoc' = after.sig
        /\ uiUpdates' = [uiUpdates EXCEPT ![w] =
                            IF first THEN hist.updates + 1 ELSE hist.updates]
        /\ sawDoc' = [sawDoc EXCEPT ![w] = hist.saw \/ doc # None]

(***************************************************************************)
(* Version 1.6.0: the calls of Gedit.                                      *)
(***************************************************************************)
\* _connect_notebooks, for the list nbs just found
_connect_notebooks16(w, nbs) ==
    /\ handlers16' = [handlers16 EXCEPT ![w] =
                         [nb \in Range(nbs) |-> FreshId(sigPage[nb])]]
    /\ sigPage' = [nb \in Notebooks |->
                      IF nb \in Range(nbs)
                      THEN sigPage[nb] \cup {FreshId(sigPage[nb])}
                      ELSE sigPage[nb]]

\* ColorPanesPlugin.activate(window): ColorPanesWindowHelper.__init__, which
\* ends with a call of update_ui.
Activate16(w) ==
    /\ w \notin instances16
    /\ instances16' = instances16 \cup {w}
    /\ \E nbs \in {_get_notebooks16(children, Win(w))} :
        /\ notebooks16' = [notebooks16 EXCEPT ![w] = nbs]
        /\ _connect_notebooks16(w, nbs)
        /\ update_ui16(w, activeDoc[w], [signal_doc |-> None, doc_handler |-> 0], nbs,
                       [updates |-> 0, saw |-> FALSE])
    /\ last' = Step("update_ui", w)
    /\ UNCHANGED <<children, style, schemeText, schemeBase, activeDoc, trunkVars>>

\* _disconnect_notebooks: the dictionary keeps its entries.
_disconnect_notebooks16(w) ==
    sigPage' = [nb \in Notebooks |->
                   IF nb \in DOMAIN handlers16[w]
                   THEN sigPage[nb] \ {handlers16[w][nb]}
                   ELSE sigPage[nb]]

\* ColorPanesPlugin.deactivate(window): ColorPanesWindowHelper.deactivate,
\* then the helper is deleted.
Deactivate16(w) ==
    /\ w \in instances16
    /\ _disconnect_notebooks16(w)
    /\ sigDoc' = _disconnect_doc16(w, [signal_doc |-> signal_doc[w],
                                       doc_handler |-> doc_handler[w]], sigDoc).sig
    /\ instances16' = instances16 \ {w}
    /\ signal_doc' = [signal_doc EXCEPT ![w] = None]
    /\ doc_handler' = [doc_handler EXCEPT ![w] = 0]
    /\ handlers16' = [handlers16 EXCEPT ![w] = << >>]
    /\ notebooks16' = [notebooks16 EXCEPT ![w] = << >>]
    /\ terminal16' = [terminal16 EXCEPT ![w] = NoWidget]
    /\ uiUpdates' = [uiUpdates EXCEPT ![w] = 0]
    /\ sawDoc' = [sawDoc EXCEPT ![w] = FALSE]
    /\ calledWith' = {}
    /\ last' = Step("call", 0)
    /\ ran' = NoRuns
    /\ UNCHANGED <<children, wText, wBase, tFg, tBg, tFont, style, schemeText, schemeBase,
                   activeDoc, trunkVars>>

\* The active document of window w becomes doc (a tab is opened, chosen,
\* closed or moved; doc is None when no tab is left), or stays; Gedit then
\* calls update_ui(w) when the plugin is active for the window.
UpdateUi16(w, doc) ==
    /\ activeDoc' = [activeDoc EXCEPT ![w] = doc]
    /\ IF w \in instances16
       THEN /\ update_ui16(w, doc, [signal_doc |-> signal_doc[w],
                                    doc_handler |-> doc_handler[w]], notebooks16[w],
                           [updates |-> uiUpdates[w], saw |-> sawDoc[w]])
            /\ last' = Step("update_ui", w)
       ELSE /\ last' = Step("call", 0)
            /\ ran' = NoRuns
            /\ calledWith' = {}
            /\ UNCHANGED <<wText, wBase, tFg, tBg, tFont, terminal16, signal_doc,
                           doc_handler, sigDoc, uiUpdates, sawDoc>>
    /\ UNCHANGED <<children, style, schemeText, schemeBase, sigPage, instances16, handlers16,
                   notebooks16, trunkVars>>

(***************************************************************************)
(* Version 1.6.0: the signals.                                             *)
(***************************************************************************)
\* The documents a handler of helper w is connected to, the one that calls
\* it, and the number of its handlers.
Connected16(w) == {d \in Documents : \E p \in sigDoc[d] : p[2] = w}
SourceBuffer16(w) == CHOOSE d \in Documents : d \in Connected16(w)
HandlersOnDocs16(w) ==
    Cardinality({dp \in Documents \X (UNION Range(sigDoc)) :
                    dp[2] \in sigDoc[dp[1]] /\ dp[2][2] = w})

\* on_notify_style_scheme, the documents' scheme being d
on_notify_style_scheme16(d) ==
    \E W \in {{w \in Windows : Connected16(w) # {}}} :
        RunUpdates16(children, W, [v \in W |-> HandlersOnDocs16(v)], [v \in W |-> TRUE],
                     notebooks16, [v \in W |-> SourceBuffer16(v)], d)

\* The user chooses the scheme with the colours s: every document's
\* style-scheme property changes and the connected handlers run.
SchemeChanged16(s) ==
    /\ style' = StyleOf(s)
    /\ schemeText' = SchemeDefines(StyleOf(s))[1]
    /\ schemeBase' = SchemeDefines(StyleOf(s))[2]
    /\ on_notify_style_scheme16(StyleOf(s))
    /\ last' = Step("notify", 0)
    /\ UNCHANGED <<children, sigPage, activeDoc, sigDoc, instances16, signal_doc,
                   doc_handler, handlers16, notebooks16, uiUpdates, sawDoc, trunkVars>>

\* As on_page_added without the call of _update_pane_colors.
PageAddedIgnored16(ch, w) ==
    RunUpdates16(ch, {w}, [v \in {w} |-> 0], [v \in {w} |-> activeDoc[v] # None],
                 notebooks16, activeDoc, style)

\* As on_page_added without the test "if doc".
PageAddedAnyDoc16(ch, w) ==
    RunUpdates16(ch, {w}, [v \in {w} |-> Cardinality(sigPage[Side(v)])],
                 [v \in {w} |-> TRUE], notebooks16, activeDoc, style)

\* on_page_added: a tracked notebook emits page-added, the page already in it.
on_page_added16(ch, w) ==
    RunUpdates16(ch, {w}, [v \in {w} |-> Cardinality(sigPage[Side(v)])],
                 [v \in {w} |-> activeDoc[v] # None], notebooks16, activeDoc, style)

PageAdded16(w, page) ==
    /\ ~Attached(children, w, page)
    /\ LET ch == [children EXCEPT ![Side(w)] = Append(@, page)]
       IN  /\ children' = ch
           /\ on_page_added16(ch, w)
    /\ last' = Step("page-added", w)
    /\ UNCHANGED <<style, schemeText, schemeBase, sigPage, activeDoc, sigDoc, instances16,
                   signal_doc, doc_handler, handlers16, notebooks16, uiUpdates, sawDoc,
                   trunkVars>>

\* A page leaves the side pane; the plugin connects nothing to page-removed.
PageRemoved16(w, page) ==
    /\ Attached(children, w, page)
    /\ children' = [children EXCEPT ![Side(w)] = Without(@, page)]
    /\ last' = Step("page-removed", 0)
    /\ ran' = NoRuns
    /\ calledWith' = {}
    /\ UNCHANGED <<wText, wBase, tFg, tBg, tFont, style, schemeText, schemeBase, sigPage,
                   activeDoc, sigDoc, instances16, signal_doc, doc_handler, handlers16,
                   notebooks16, terminal16, uiUpdates, sawDoc, trunkVars>>

(***************************************************************************)
(* Version 1.6.0: the specification.                                       *)
(***************************************************************************)
\* The pages that come and go in the side pane of window 1, where the
\* documents are opened; the other windows stay without a document.
Pages16 == PanePages \cup TerminalPages

Next16 ==
    \/ \E w \in Windows : Activate16(w)
    \/ \E w \in Windows : Deactivate16(w)
    \/ \E doc \in Documents \cup {None} : UpdateUi16(1, doc)
    \/ \E s \in Schemes : SchemeChanged16(s)
    \/ \E page \in Pages16 : PageAdded16(1, page)
    \/ \E page \in Pages16 : PageRemoved16(1, page)

Spec16 == Init /\ [][Next16]_vars

(***************************************************************************)
(* Both versions: the calls a search makes.  Each operator gives the       *)
(* widget arguments of the calls of one search, the recursive ones         *)
(* included, in the order they are made.                                   *)
(***************************************************************************)
RECURSIVE Flatten(_)
Flatten(ss) == IF ss = << >> THEN << >> ELSE Head(ss) \o Flatten(Tail(ss))

\* As Calls_get_notebooks with the loop over the children of a notebook
\* run twice.
RECURSIVE CallsNotebooksTwice(_, _)
CallsNotebooksTwice(ch, widget) ==
    <<widget>>
    \o (IF IsContainer(widget)
        THEN Flatten([i \in DOMAIN ch[widget] |-> CallsNotebooksTwice(ch, ch[widget][i])])
             \o (IF IsNotebook(widget)
                 THEN Flatten([i \in DOMAIN ch[widget] |->
                                  CallsNotebooksTwice(ch, ch[widget][i])])
                 ELSE << >>)
        ELSE << >>)

\* trunk _get_notebooks
RECURSIVE Calls_get_notebooks(_, _)
Calls_get_notebooks(ch, widget) ==
    <<widget>>
    \o (IF IsContainer(widget)
        THEN Flatten([i \in DOMAIN ch[widget] |-> Calls_get_notebooks(ch, ch[widget][i])])
        ELSE << >>)

\* trunk _get_widgets_to_color
RECURSIVE Calls_get_widgets_to_color(_, _)
Calls_get_widgets_to_color(ch, widget) ==
    <<widget>>
    \o (IF IsContainer(widget)
        THEN Flatten([i \in DOMAIN ch[widget] |->
                         Calls_get_widgets_to_color(ch, ch[widget][i])])
        ELSE << >>)

\* trunk _get_terminals
RECURSIVE Calls_get_terminals(_, _)
Calls_get_terminals(ch, widget) ==
    <<widget>>
    \o (IF IsContainer(widget)
        THEN Flatten([i \in DOMAIN ch[widget] |-> Calls_get_terminals(ch, ch[widget][i])])
        ELSE << >>)

\* 1.6.0 _get_notebooks
RECURSIVE Calls_get_notebooks16(_, _)
Calls_get_notebooks16(ch, widget) ==
    <<widget>>
    \o (IF IsContainer(widget)
        THEN Flatten([i \in DOMAIN ch[widget] |-> Calls_get_notebooks16(ch, ch[widget][i])])
        ELSE << >>)

\* 1.6.0 _get_widgets_to_color
RECURSIVE Calls_get_widgets_to_color16(_, _)
Calls_get_widgets_to_color16(ch, widget) ==
    <<widget>>
    \o (IF IsView(widget) \/ IsEntry(widget) \/ IsDrawingArea(widget)
        THEN << >>
        ELSE IF IsContainer(widget)
             THEN Flatten([i \in DOMAIN ch[widget] |->
                              Calls_get_widgets_to_color16(ch, ch[widget][i])])
             ELSE << >>)

(***************************************************************************)
(* The tree: GTK puts a widget that has no parent into a container.        *)
(***************************************************************************)
\* The widgets reachable from the widgets S through get_children.
RECURSIVE Closure(_, _)
Closure(ch, S) ==
    LET T == S \cup UNION {Range(ch[x]) : x \in S}
    IN  IF T = S THEN S ELSE Closure(ch, T)

Reach(ch, root) == Closure(ch, {root})

HasParent(ch, x) == \E y \in DOMAIN ch : x \in Range(ch[y])

\* container.add(x)
Add(container, x) ==
    /\ IsContainer(container)
    /\ ~HasParent(tree, x)
    /\ container \notin Reach(tree, x)
    /\ Cardinality({y \in TreeNodes : HasParent(tree, y)}) < MaxEdges
    /\ tree' = [tree EXCEPT ![container] = Append(@, x)]
    /\ found' = NoSearch
    /\ UNCHANGED <<hostVars, pluginVars, helperVars, pc, historyVars, vars16>>

\* The searches of both versions, each called on the widget root.
Search(root) ==
    /\ found' =
          [root |-> root,
           notebooks |-> _get_notebooks(tree, root),
           widgets_to_color |-> _get_widgets_to_color(tree, root),
           terminals |-> _get_terminals(tree, root),
           notebooks16 |-> _get_notebooks16(tree, root),
           widgets_to_color16 |-> _get_widgets_to_color16(tree, root),
           calls_notebooks |-> Calls_get_notebooks(tree, root),
           calls_widgets |-> Calls_get_widgets_to_color(tree, root),
           calls_terminals |-> Calls_get_terminals(tree, root),
           calls_notebooks16 |-> Calls_get_notebooks16(tree, root),
           calls_widgets16 |-> Calls_get_widgets_to_color16(tree, root)]
    /\ UNCHANGED <<tree, hostVars, pluginVars, helperVars, pc, historyVars, vars16>>

NextTree ==
    \/ \E container \in TreeNodes, x \in TreeNodes : Add(container, x)
    \/ \E root \in TreeNodes : Search(root)

\* Every tree of at most MaxEdges edges; the editor's scheme plays no part.
InitSearch == Init /\ schemeText = None /\ schemeBase = None

SpecTree == InitSearch /\ [][NextTree]_vars

(***************************************************************************)
(* Trunk: properties.                                                      *)
(***************************************************************************)
\* ColorPanesPlugin.deactivate(w) is the step that takes w out of _instances.
Deactivating(w) == w \in instances /\ w \notin instances'

\* The widgets update_pane_colors of helper w finds on the tree ch.
Found(ch, w) == WidgetsToColor(ch, NotebooksOf(w))

\* C1 as claimed: after deactivate, every widget an update recoloured while
\* the window was active has the text and base colours (a terminal also the
\* foreground, background and font) it had before the window was activated.
C1_DeactivateRestoresOriginal ==
    [][\A w \in Windows : Deactivating(w) =>
          \A x \in touched[w] :
              /\ wText'[x] = preText[x]
              /\ wBase'[x] = preBase[x]
              /\ x \in Terminals => <<tFg'[x], tBg'[x], tFont'[x]>> = preTerm[x]]_vars

\* C2: while a window is active, a preferences change, a style-set of the
\* window and a page-added of a tracked notebook each run update_pane_colors
\* for it, and then every widget found under its notebooks has the scheme's
\* text and base colour as overrides.
C2_SignalsUpdateColors ==
    \A w \in instances :
        (last = Step("prefs", 0) \/ last = Step("style-set", w) \/ last = Step("page-added", w))
        => /\ ran[w] >= 1
           /\ \A x \in Found(children, w) : wText[x] = schemeText /\ wBase[x] = schemeBase

\* A page-added has just recoloured the widget that was added to pageA
\* without a signal.
C2_Witness ==
    /\ last = Step("page-added", 1)
    /\ 1 \in instances
    /\ ViewX \in Found(children, 1)
    /\ wText[ViewX] = "ink"
    /\ wBase[ViewX] = None

\* C3: when ColorPanesPlugin.deactivate(w) returns, the style-set handler
\* and every page-added handler the helper held are disconnected, and
\* _handlers_per_notebook is empty.
C3_DeactivateDisconnects ==
    [][\A w \in Windows : Deactivating(w) =>
          /\ h_style[w] \notin sigStyle'[w]
          /\ \A nb \in DOMAIN h_handlers[w] : h_handlers[w][nb] \notin sigPage'[nb]
          /\ sigStyle'[w] = {}
          /\ \A nb \in _get_notebooks(children, Win(w)) : sigPage'[nb] = {}
          /\ h_handlers'[w] = << >>]_vars

\* Window 1 was activated and is deactivated, window 2 is still active.
C3_Witness ==
    /\ 1 \notin instances
    /\ h_style[1] # 0
    /\ sigStyle[1] = {}
    /\ sigPage[Side(1)] = {}
    /\ 2 \in instances
    /\ sigPage[Side(2)] # {}

\* C8: adding a widget below an existing page of a tracked notebook runs no
\* update_pane_colors and changes no colour; while the window stays active
\* the overrides of the new widget change only in a step that delivers a
\* preferences change, a style-set or a page-added.
C8_AddedViewStaysUncolored ==
    [][/\ last' = Step("view-added", 1) =>
             ran' = NoRuns /\ wText' = wText /\ wBase' = wBase
       /\ (/\ 1 \in instances /\ 1 \in instances'
           /\ <<wText'[ViewX], wBase'[ViewX]>> # <<wText[ViewX], wBase[ViewX]>>)
          => last'[1] \in {"prefs", "style-set", "page-added"}]_vars

\* The widget has just been added: its neighbour has the scheme's colour,
\* the new widget has none.
C8_Witness ==
    /\ last = Step("view-added", 1)
    /\ 1 \in instances
    /\ ViewX \in Found(children, 1)
    /\ wText[ViewA(1)] = "ink"
    /\ wText[ViewX] = None

\* C9: when deactivate returns, every widget under a notebook the helper
\* tracked that has modify_text and modify_base has no text and no base
\* override.
C9_DeactivateClearsOverrides ==
    [][\A w \in Windows : Deactivating(w) =>
          \A x \in Found(children', w) : wText'[x] = None /\ wBase'[x] = None]_vars

\* Window 1 was activated and is deactivated; its view is in the pane and
\* has no override, while the view of the active window 2 has the scheme's.
C9_Witness ==
    /\ 1 \notin instances
    /\ h_style[1] # 0
    /\ Attached(children, 1, PageA(1))
    /\ wText[ViewA(1)] = None /\ wBase[ViewA(1)] = None
    /\ 2 \in instances
    /\ wText[ViewA(2)] = "ink" /\ wBase[ViewA(2)] = "paper"

\* What is recorded for a terminal that was <<fg, bg, font, readable>>.
RecordedColors(f) ==
    IF f[4] /\ f[1] # f[2] THEN <<f[1], f[2]>> ELSE <<ProfileFg, ProfileBg>>

\* The records of a terminal are not changed while a window stays active.
RecordsKept ==
    /\ \A t \in DOMAIN terminal_colors : instances' # {} =>
          t \in DOMAIN terminal_colors' /\ terminal_colors'[t] = terminal_colors[t]
    /\ \A t \in DOMAIN terminal_font : instances' # {} =>
          t \in DOMAIN terminal_font' /\ terminal_font'[t] = terminal_font[t]

Found16(w) == WidgetsToColor16(children, notebooks16[w])

\* C4: while the helper is active, a style-scheme notification from the
\* document its handler is connected to, and a page-added of a tracked
\* notebook while the window has an active document, each run
\* _update_pane_colors, and then every widget _get_widgets_to_color returns
\* for the tracked notebooks has the scheme's text and base colour.
C4_SignalsUpdateColors16 ==
    \A w \in instances16 :
        (\/ last = Step("notify", 0) /\ Connected16(w) # {}
         \/ last = Step("page-added", w) /\ activeDoc[w] # None)
        => /\ ran[w] >= 1
           /\ \A x \in Found16(w) : wText[x] = schemeText /\ wBase[x] = schemeBase

\* A page-added has just given the scheme's colour to the view of a page
\* that came back into the pane.
C4_Witness ==
    /\ 1 \in instances16
    /\ last = Step("page-added", 1)
    /\ activeDoc[1] # None
    /\ ran[1] = 1
    /\ ViewA(1) \in Found16(1)
    /\ schemeText = "ink"
    /\ wText[ViewA(1)] = "ink"

\* C5 as claimed: after every update_ui of an active helper that finds the
\* active document D, the helper holds a handler that is connected to D's
\* notify::style-scheme.
C5_UpdateUiConnectsActiveDoc ==
    \A w \in instances16 :
        (last = Step("update_ui", w) /\ activeDoc[w] # None)
        => /\ signal_doc[w] = activeDoc[w]
           /\ doc_handler[w] # 0
           /\ <<doc_handler[w], w>> \in sigDoc[activeDoc[w]]

\* C6: over the life of a helper, update_ui calls _update_pane_colors in the
\* first call that finds an active document (the call made by __init__
\* included) and in no other call.
C6_UpdateUiRecolorsOnce ==
    \A w \in Windows : uiUpdates[w] = IF sawDoc[w] THEN 1 ELSE 0

\* A later update_ui has found a document again, after a call that found
\* none, and has not recoloured.
C6_Witness ==
    /\ 1 \in instances16
    /\ last = Step("update_ui", 1)
    /\ activeDoc[1] = "doc1"
    /\ signal_doc[1] = "doc1"
    /\ doc_handler[1] = 0
    /\ sawDoc[1]
    /\ uiUpdates[1] = 1
    /\ ran[1] = 0

\* C7: _update_pane_colors is never called with None for the document; an
\* update_ui or a page-added of a window whose active document is None
\* changes no colour and no font; and until an update_ui of the helper has
\* found a document, no widget of its window is recoloured.
C7_NoDocumentNoRecolor ==
    [][/\ None \notin calledWith'
       /\ \A w \in Windows :
            (last' \in {Step("update_ui", w), Step("page-added", w)}
             /\ activeDoc'[w] = None)
            => UNCHANGED <<wText, wBase, tFg, tBg, tFont>>
       /\ \A w \in instances16' :
            ~sawDoc'[w]
            => /\ \A x \in Widgets :
                    WindowOf(x) = w => wText'[x] = wText[x] /\ wBase'[x] = wBase[x]
               /\ \A t \in Terminals :
                    WindowOf(t) = w
                    => tFg'[t] = tFg[t] /\ tBg'[t] = tBg[t] /\ tFont'[t] = tFont[t]
      ]_vars

\* The plugin was activated with no document open and a page has just been
\* added: the view in the pane has no colour, though the scheme has.
C7_Witness ==
    /\ 1 \in instances16
    /\ ~sawDoc[1]
    /\ activeDoc[1] = None
    /\ last = Step("page-added", 1)
    /\ sigPage[Side(1)] # {}
    /\ ViewA(1) \in Found16(1)
    /\ schemeText = "ink"
    /\ wText[ViewA(1)] = None

(***************************************************************************)
(* Trunk: the colours an update applies.                                   *)
(***************************************************************************)
\* C11: for text and base each on its own: when the scheme does not
\* define the colour (no scheme, no 'text' style, property not set, empty
\* description) an update clears the override of every widget it colours
\* and gives the terminal the colour of the terminal's style; when the
\* scheme defines it, widgets and terminals get the scheme's colour.
C11_DefaultsToSystemColours ==
    \A w \in instances :
        (last \in {Step("prefs", 0), Step("style-set", w), Step("page-added", w)}
         /\ ran[w] >= 1)
        => LET text_defined == style.scheme /\ style.text /\ style.fg_set /\ style.fg # ""
               base_defined == style.scheme /\ style.text /\ style.bg_set /\ style.bg # ""
           IN  /\ \A x \in Found(children, w) :
                    /\ wText[x] = IF text_defined THEN color_parse(style.fg) ELSE None
                    /\ wBase[x] = IF base_defined THEN color_parse(style.bg) ELSE None
               /\ \A t \in TerminalsIn(children, NotebooksOf(w)) :
                    /\ tFg[t] = IF text_defined THEN color_parse(style.fg) ELSE ThemeText
                    /\ tBg[t] = IF base_defined THEN color_parse(style.bg) ELSE ThemeBase

\* The scheme sets the text colour and has an empty background: the view
\* and the terminal in the pane have the scheme's text colour, the view no
\* base override and the terminal the base colour of its style.
C11_Witness ==
    /\ 1 \in instances
    /\ last = Step("prefs", 0)
    /\ ran[1] = 1
    /\ style.scheme /\ style.text
    /\ style.fg_set /\ style.fg # ""
    /\ style.bg_set /\ style.bg = ""
    /\ Term \in TerminalsIn(children, NotebooksOf(1))
    /\ wText[ViewA(1)] = "ink" /\ wBase[ViewA(1)] = None
    /\ tFg[Term] = "ink" /\ tBg[Term] = ThemeBase

(***************************************************************************)
(* Version 1.6.0: what deactivate leaves connected.                        *)
(***************************************************************************)
\* C12: when ColorPanesPlugin.deactivate(w) returns, no page-added handler
\* of the helper is connected to a notebook it tracked, and no document has
\* a notify::style-scheme handler of the helper.
C12_DeactivateDisconnects16 ==
    [][\A w \in Windows :
          (w \in instances16 /\ w \notin instances16')
          => /\ \A nb \in DOMAIN handlers16[w] : handlers16[w][nb] \notin sigPage'[nb]
             /\ \A nb \in Range(notebooks16[w]) : sigPage'[nb] = {}
             /\ \A d \in Documents : \A p \in sigDoc'[d] : p[2] # w
      ]_vars

\* Window 1 was active with a document, which is still open and has no
\* handler left; its view kept the colour the helper gave it; window 2 is
\* still active and connected.
C12_Witness ==
    /\ last = Step("call", 0)
    /\ 1 \notin instances16
    /\ 2 \in instances16
    /\ activeDoc[1] # None
    /\ wText[ViewA(1)] = "ink"
    /\ \A d \in Documents : sigDoc[d] = {}
    /\ sigPage[Side(1)] = {}
    /\ sigPage[Side(2)] # {}

(***************************************************************************)
(* Trunk: the GConf notification.                                          *)
(***************************************************************************)
\* C13: GConf holds a notification of the plugin exactly while a window is
\* active, and then exactly one, the one the plugin keeps in _gconf_cnxn:
\* it is registered by the first activation, not again by the next ones,
\* and removed by the deactivation of the last active window.
C13_GconfConnectedWhileActive ==
    IF instances = {}
    THEN gconfNotify = {} /\ ~gconf_client /\ gconf_cnxn = 0
    ELSE gconfNotify = {gconf_cnxn} /\ gconf_client /\ gconf_cnxn # 0

\* Every window is active and there is one notification.
C13_Witness ==
    /\ instances = Windows
    /\ Cardinality(Windows) > 1
    /\ Cardinality(gconfNotify) = 1
    /\ gconf_cnxn \in gconfNotify

\* C14: a change of Gedit's editor preferences runs update_pane_colors
\* once on the helper of each window that is active, and on no helper of a
\* window that is not.
C14_PrefsUpdateEachActiveOnce ==
    last = Step("prefs", 0)
    => \A w \in Windows : ran[w] = IF w \in instances THEN 1 ELSE 0

\* A preferences change has arrived while window 2 is active and window 1,
\* which was active before, is not: its view has no override although the
\* scheme defines colours.
C14_Witness ==
    /\ last = Step("prefs", 0)
    /\ 1 \notin instances /\ h_style[1] # 0
    /\ 2 \in instances
    /\ ran[1] = 0 /\ ran[2] = 1
    /\ schemeText = "ink"
    /\ wText[ViewA(1)] = None
    /\ wText[ViewA(2)] = "ink"

(***************************************************************************)
(* C15.  The helpers a callback can reach while a call is at some          *)
(* statement.                                                              *)
(***************************************************************************)
\* The callbacks reach the helper of window w: its style-set handler is
\* connected to the window, a page-added handler of it is connected to a
\* notebook, or it is in _instances, which on_gedit_prefs_changed walks.
Reaches(w) ==
    \/ h_style[w] \in sigStyle[w]
    \/ \E nb \in DOMAIN h_handlers[w] : h_handlers[w][nb] \in sigPage[nb]
    \/ w \in instances

Searched == found.root # NoWidget

\* The widgets between root and x: reachable from root, with x below them.
Above(ch, root, x) == {y \in Reach(ch, root) \ {x} : x \in Reach(ch, y)}

\* The widgets version 1.6.0 takes: a view, an entry or a drawing area.
Match16(x) == IsView(x) \/ IsEntry(x) \/ IsDrawingArea(x)

\* C16.  Trunk: _get_notebooks returns exactly the widgets reachable from
\* its argument through get_children that are notebooks and not a
\* GeditNotebook, those below a GeditNotebook and those inside other
\* notebooks included.
C16_NotebooksExactlyReachable ==
    Searched
    => found.notebooks = {x \in Reach(tree, found.root) :
                             IsNotebook(x) /\ ~IsGeditNotebook(x)}

\* Searched from the GeditNotebook that holds a notebook which holds a
\* notebook: both are returned, the GeditNotebook is not.
C16_Witness ==
    /\ found.root = <<"docs", 1>>
    /\ tree[<<"docs", 1>>] = << <<"side", 1>> >>
    /\ tree[<<"side", 1>>] = << <<"side", 2>> >>
    /\ found.notebooks = {<<"side", 1>>, <<"side", 2>>}

\* C17.  Trunk: _get_widgets_to_color returns exactly the widgets of the
\* subtree, root included, that have modify_text and modify_base, and
\* _get_terminals exactly those that have set_color_foreground and
\* set_color_background, matches inside matches included.
C17_MatchesExactlySubtree ==
    Searched
    => /\ found.widgets_to_color = {x \in Reach(tree, found.root) : HasModify(x)}
       /\ found.terminals = {x \in Reach(tree, found.root) : HasTermSetters(x)}

\* Searched from a notebook that holds a tree view that holds the terminal:
\* all three are widgets to colour, the innermost is the terminal.
C17_Witness ==
    /\ found.root = <<"side", 1>>
    /\ tree[<<"side", 1>>] = << <<"viewA", 1>> >>
    /\ tree[<<"viewA", 1>>] = << <<"term", 1>> >>
    /\ found.widgets_to_color = {<<"side", 1>>, <<"viewA", 1>>, <<"term", 1>>}
    /\ found.terminals = {<<"term", 1>>}

\* C18.  Version 1.6.0: _get_widgets_to_color returns exactly the views,
\* entries and drawing areas reached from its argument without passing
\* through another of them, and no terminal.
C18_OutermostMatches16 ==
    Searched
    => /\ found.widgets_to_color16 =
              {x \in Reach(tree, found.root) :
                  Match16(x) /\ \A y \in Above(tree, found.root, x) : ~Match16(y)}
       /\ \A x \in found.widgets_to_color16 : ~IsVte(x)

\* Searched from a notebook that holds a tree view that holds an entry: the
\* view is returned, the entry below it is not.
C18_Witness ==
    /\ found.root = <<"side", 1>>
    /\ tree[<<"side", 1>>] = << <<"viewA", 1>> >>
    /\ tree[<<"viewA", 1>>] = << <<"viewX", 1>> >>
    /\ found.widgets_to_color16 = {<<"viewA", 1>>}

\* The calls visit widgets reachable from root, none of them twice.
OncePerWidget(calls, root) ==
    /\ Range(calls) \subseteq Reach(tree, root)
    /\ Cardinality(Range(calls)) = Len(calls)

\* C19.  Both versions: on every tree each search ends after calls that
\* visit every widget reachable from its argument at most once.
C19_SearchesVisitOnce ==
    Searched
    => /\ OncePerWidget(found.calls_notebooks, found.root)
       /\ OncePerWidget(found.calls_widgets, found.root)
       /\ OncePerWidget(found.calls_terminals, found.root)
       /\ OncePerWidget(found.calls_notebooks16, found.root)
       /\ OncePerWidget(found.calls_widgets16, found.root)

\* Searched from a notebook that holds a notebook and a tree view: the
\* trunk searches have visited the three widgets, each once.
C19_Witness ==
    /\ found.root = <<"side", 1>>
    /\ tree[<<"side", 1>>] = << <<"side", 2>>, <<"viewA", 1>> >>
    /\ found.calls_notebooks = << <<"side", 1>>, <<"side", 2>>, <<"viewA", 1>> >>
    /\ found.calls_terminals = found.calls_notebooks
    /\ found.calls_widgets16 = found.calls_notebooks

====
